---- MODULE Spec2Model ----
(***************************************************************************)
(* Model of metadata-classification/data_loader.py: the Dataset Loader     *)
(* (DataLoader.get_cleaned_data / get_df_from_data), the Encoder with its  *)
(* on-disk cache (GeneralEncoder.get_embedded_dataset and the cache key    *)
(* get_embedding_dir) and the Pooling Reducer (DataLoader.apply_pooling).  *)
(*                                                                         *)
(* Strings are sequences of characters.  Names of classes and attributes   *)
(* are sequences of code points (numpy orders them by code point);         *)
(* technique names are sequences of one-character strings.                 *)
(* A DataFrame is a record of columns: name, type and, once it has been    *)
(* added, embedding (has_embedding says whether the column is there).      *)
(***************************************************************************)
EXTENDS Integers, Sequences, FiniteSets, TLC

VARIABLES
    json,           \* the content of the metadata file read at data_link
    df,             \* DataLoader.df, or the table handed to apply_pooling
    listdir,        \* the cache directory data_dir: key -> unpickled data.pkl
    returned,       \* per accessor, the table its last call returned
    calls,          \* the calls made so far, with what each of them did
    embedding,      \* GeneralEncoder.embedding, the technique name
    embedding_dir,  \* the cache key computed from it
    technique,      \* the pooling technique handed to apply_pooling
    pc              \* the position of the run

vars == <<json, df, listdir, returned, calls, embedding, embedding_dir, technique, pc>>

Range(s) == {s[i] : i \in 1..Len(s)}

Last(s) == s[Len(s)]

SeqsUpTo(S, n) == UNION {[1..k -> S] : k \in 0..n}

(***************************************************************************)
(* Bounds of the model.                                                    *)
(***************************************************************************)
MaxNames     == 2   \* entries of one `classes` list
MaxLen       == 5   \* characters of a technique name
MaxRows      == 2   \* records of a table handed to apply_pooling
MaxSentences == 2   \* sentences of one embedding
MaxTokens    == 2   \* tokens of one sentence
MaxCalls     == 3   \* calls made on one cache directory

(***************************************************************************)
(* Dataset Loader                                                          *)
(***************************************************************************)

\* Comparison of two strings by code point, a proper prefix coming first
\* (the order np.unique sorts a string array in).
LexLess(a, b) ==
    \E i \in 1..(Len(a) + 1) :
        /\ \A j \in 1..(i - 1) : j <= Len(b) /\ a[j] = b[j]
        /\ \/ i = Len(a) + 1 /\ i <= Len(b)
           \/ i <= Len(a) /\ i <= Len(b) /\ a[i] < b[i]

RECURSIVE Insert(_, _)
Insert(x, s) ==
    IF s = <<>> THEN <<x>>
    ELSE IF LexLess(s[1], x) THEN <<s[1]>> \o Insert(x, Tail(s))
    ELSE <<x>> \o s

RECURSIVE Sort(_)
Sort(s) == IF s = <<>> THEN <<>> ELSE Insert(s[1], Sort(Tail(s)))

\* The mask ar[1:] != ar[:-1] of np.unique: an element is kept when it is the
\* first of the sorted array or differs from its predecessor.
RECURSIVE DropRepeats(_)
DropRepeats(s) ==
    IF Len(s) <= 1 THEN s
    ELSE IF s[1] = s[2] THEN DropRepeats(Tail(s))
    ELSE <<s[1]>> \o DropRepeats(Tail(s))

np_unique_nodedupe(ar) == Sort(ar)

np_unique(ar) == DropRepeats(Sort(ar))

\* flatten = lambda t: np.array([item for sublist in t for item in sublist])
RECURSIVE flatten(_)
flatten(t) == IF t = <<>> THEN <<>> ELSE t[1] \o flatten(Tail(t))

IsEnglish(metadata) == metadata.lang = "__label__en"

get_cleaned_data_nofilter(data) == data

\* english_data: the documents whose lang is '__label__en', in file order.
get_cleaned_data(data) == SelectSeq(data, IsEnglish)

RECURSIVE Collect(_, _)
Collect(data, key) ==
    IF data = <<>> THEN <<>>
    ELSE (IF key \in DOMAIN data[1] THEN <<data[1][key]>> ELSE <<>>)
         \o Collect(Tail(data), key)

Tagged(names, tag) == [i \in 1..Len(names) |-> tag]

\* pd.DataFrame(... np.unique(flatten(all_classes)) tagged 'class' +
\*              ... np.unique(flatten(all_attrs)) tagged 'attribute', columns=['name', 'type'])
get_df_from_data(data) ==
    LET all_classes == Collect(data, "classes")
        all_attrs   == Collect(data, "attributes")
        classes     == np_unique(flatten(all_classes))
        attrs       == np_unique(flatten(all_attrs))
    IN  [name          |-> classes \o attrs,
         type          |-> Tagged(classes, "class") \o Tagged(attrs, "attribute"),
         has_embedding |-> FALSE,
         embedding     |-> <<>>]

NoTable == [name |-> <<>>, type |-> <<>>, has_embedding |-> FALSE, embedding |-> <<>>]

\* Names of the loader's inputs: "a", "ab", "b".
LoaderNames == {<<97>>, <<97, 98>>, <<98>>}

LangTags == {"__label__en", "__label__fr"}

ClassLists == SeqsUpTo(LoaderNames, MaxNames)

AttributeLists == {<<>>} \cup {<<n>> : n \in LoaderNames}

\* One document of the file: lang, and optionally classes and attributes.
Documents ==
    [lang : LangTags]
    \cup [lang : LangTags, classes : ClassLists]
    \cup [lang : LangTags, attributes : AttributeLists]
    \cup [lang : LangTags, classes : ClassLists, attributes : AttributeLists]

\* The files' keys, in the order they stand in the file.
Files == <<"a", "b">>

JsonFiles == UNION {[1..n -> Documents] : n \in 0..Len(Files)}

Idle ==
    /\ listdir = <<>>
    /\ returned = <<>>
    /\ calls = <<>>
    /\ embedding = <<>>
    /\ embedding_dir = <<>>
    /\ technique = ""

InitLoader ==
    /\ json \in JsonFiles
    /\ df = NoTable
    /\ pc = "new"
    /\ Idle

\* DataLoader.__init__: self.data = get_cleaned_data(); self.df = get_df_from_data()
Construct ==
    /\ pc = "new"
    /\ df' = get_df_from_data(get_cleaned_data(json))
    /\ pc' = "loaded"
    /\ UNCHANGED <<json, listdir, returned, calls, embedding, embedding_dir, technique>>

NextLoader == Construct

SpecLoader == InitLoader /\ [][NextLoader]_vars

EnglishDocs == {i \in 1..Len(json) : json[i].lang = "__label__en"}

NamesUnder(key) ==
    UNION {Range(json[i][key]) : i \in {j \in EnglishDocs : key \in DOMAIN json[j]}}

Rows == 1..Len(df.name)

\* C1 (as stated): the Loader table holds no two rows with the same name, also
\* when a string stands in a classes list and in an attributes list.
C1_NamesUnique ==
    pc = "loaded" => \A i, j \in Rows : i # j => df.name[i] # df.name[j]

\* C1 (amended): the Loader table holds no two rows with the same (name, type);
\* a string that stands in a classes list and in an attributes list of English
\* documents has exactly two rows, one of each type, and any other name one row.
C1_NameTypeUnique ==
    pc = "loaded" =>
        /\ \A i, j \in Rows :
               i # j => <<df.name[i], df.type[i]>> # <<df.name[j], df.type[j]>>
        /\ \A n \in NamesUnder("classes") \cup NamesUnder("attributes") :
               Cardinality({i \in Rows : df.name[i] = n}) =
                   IF n \in NamesUnder("classes") \cap NamesUnder("attributes")
                   THEN 2 ELSE 1

C1_Witness ==
    /\ pc = "loaded"
    /\ \E i, j \in Rows :
           /\ df.name[i] = df.name[j]
           /\ df.type[i] = "class" /\ df.type[j] = "attribute"
    /\ \E d \in 1..Len(json) :
           /\ "classes" \in DOMAIN json[d]
           /\ \E p, q \in 1..Len(json[d].classes) :
                  p # q /\ json[d].classes[p] = json[d].classes[q]

\* C6: the Loader table is the distinct class names of the English-tagged
\* documents in lexicographic order, each tagged 'class', followed by the
\* distinct attribute names of those documents in lexicographic order, each
\* tagged 'attribute'.
C6_LoaderTable ==
    pc = "loaded" =>
        LET k == Cardinality(NamesUnder("classes"))
            m == Cardinality(NamesUnder("attributes"))
        IN  /\ Len(df.name) = k + m
            /\ Len(df.type) = k + m
            /\ {df.name[i] : i \in 1..k} = NamesUnder("classes")
            /\ {df.name[i] : i \in (k + 1)..(k + m)} = NamesUnder("attributes")
            /\ \A i \in 1..k : df.type[i] = "class"
            /\ \A i \in (k + 1)..(k + m) : df.type[i] = "attribute"
            /\ \A i, j \in 1..k : i < j => LexLess(df.name[i], df.name[j])
            /\ \A i, j \in (k + 1)..(k + m) : i < j => LexLess(df.name[i], df.name[j])

C6_Witness ==
    /\ pc = "loaded"
    /\ Len(json) = 2
    /\ json[1].lang = "__label__fr" /\ json[2].lang = "__label__en"
    /\ "classes" \in DOMAIN json[1] /\ "classes" \in DOMAIN json[2]
    /\ json[1].classes = <<(<<97>>)>>
    /\ json[2].classes = <<(<<98>>), (<<97, 98>>)>>
    /\ df.name = <<(<<97, 98>>), (<<98>>)>>

(***************************************************************************)
(* Cache key                                                               *)
(***************************************************************************)

FirstIndex(s, c) == CHOOSE i \in 1..Len(s) : s[i] = c /\ \A j \in 1..(i - 1) : s[j] # c

\* str.split(sep): the pieces of s between the occurrences of sep.
RECURSIVE split(_, _)
split(s, sep) ==
    IF sep \notin Range(s) THEN <<s>>
    ELSE LET i == FirstIndex(s, sep)
         IN  <<SubSeq(s, 1, i - 1)>> \o split(SubSeq(s, i + 1, Len(s)), sep)

\* GeneralEncoder.get_embedding_dir: embedding.split('/')[1] when the name
\* holds a '/', and the name otherwise (Python's index 1 is the second piece).
get_embedding_dir(name) ==
    IF "/" \in Range(name) THEN split(name, "/")[2] ELSE name

NameChars == {"/", "a", "b"}

TechniqueNames == SeqsUpTo(NameChars, MaxLen)

InitDir ==
    /\ embedding \in TechniqueNames
    /\ embedding_dir = <<>>
    /\ pc = "named"
    /\ json = <<>> /\ df = NoTable /\ listdir = <<>> /\ returned = <<>>
    /\ calls = <<>> /\ technique = ""

\* embedding_dir = self.get_embedding_dir(self.embedding)
ComputeKey ==
    /\ pc = "named"
    /\ embedding_dir' = get_embedding_dir(embedding)
    /\ pc' = "keyed"
    /\ UNCHANGED <<json, df, listdir, returned, calls, embedding, technique>>

NextDir == ComputeKey

SpecDir == InitDir /\ [][NextDir]_vars

\* C7: the cache key of a name without '/' is the name, and the key of a name
\* with one or more '/' is all that follows the first '/'.
C7_KeyKeepsRemainder ==
    pc = "keyed" =>
        embedding_dir =
            IF "/" \in Range(embedding)
            THEN SubSeq(embedding, FirstIndex(embedding, "/") + 1, Len(embedding))
            ELSE embedding

(***************************************************************************)
(* Pooling Reducer                                                         *)
(*                                                                         *)
(* A number is a fraction <<numerator, denominator>> in lowest terms with  *)
(* a positive denominator, so that np.average is computed exactly.  A cell *)
(* of the embedding column is [nested, v]: nested says whether v is the    *)
(* encoder's list of sentences of token vectors or an already pooled       *)
(* vector of numbers.                                                      *)
(***************************************************************************)

N(x) == <<x, 1>>

Abs(x) == IF x < 0 THEN -x ELSE x

RECURSIVE GCD(_, _)
GCD(a, b) == IF b = 0 THEN a ELSE GCD(b, a % b)

Frac(n, d) == LET g == GCD(Abs(n), d) IN <<n \div g, d \div g>>

FracLeq(p, q) == p[1] * q[2] <= q[1] * p[2]

RECURSIVE FracSum(_)
FracSum(row) ==
    IF row = <<>> THEN N(0)
    ELSE LET r == FracSum(Tail(row))
         IN  Frac(row[1][1] * r[2] + r[1] * row[1][2], row[1][2] * r[2])

row_max(row) == CHOOSE x \in Range(row) : \A y \in Range(row) : FracLeq(y, x)

row_min(row) == CHOOSE x \in Range(row) : \A y \in Range(row) : FracLeq(x, y)

np_average(row) == LET s == FracSum(row) IN Frac(s[1], s[2] * Len(row))

\* np.transpose of a list of equally long rows.
np_transpose(m) ==
    IF m = <<>> THEN <<>>
    ELSE [d \in 1..Len(m[1]) |-> [i \in 1..Len(m) |-> m[i][d]]]

SupportedTechniques == {"max", "min", "average"}

reduce(tech, row) ==
    CASE tech = "max"     -> row_max(row)
      [] tech = "min"     -> row_min(row)
      [] tech = "average" -> np_average(row)

reduce_rows(tech, m) == [d \in 1..Len(m) |-> reduce(tech, m[d])]

\* A reducer that pools all the tokens of all the sentences in one stage.
pooling_onestage(tech, vector) ==
    reduce_rows(tech, np_transpose(flatten(vector)))

\* apply_pooling.pooling for one of the three techniques: the sentences are
\* reduced one by one and then together when there are several, and the one
\* sentence directly otherwise.
pooling(tech, vector) ==
    IF Len(vector) > 1
    THEN reduce_rows(tech, np_transpose(
             [s \in 1..Len(vector) |-> reduce_rows(tech, np_transpose(vector[s]))]))
    ELSE reduce_rows(tech, np_transpose(vector[1]))

\* What pooling raises on one cell: ValueError for a technique that is none of
\* the three, TypeError when numpy iterates over the scalars of a pooled vector.
pooling_raises(tech, cell) ==
    IF tech \notin SupportedTechniques THEN "ValueError"
    ELSE IF ~cell.nested THEN "TypeError"
    ELSE ""

\* DataLoader.apply_pooling: df.embedding = df.embedding.progress_apply(pooling).
\* The column is assigned after every cell has been pooled, so a raise leaves df
\* as it was; a table without records never calls pooling.
apply_pooling(tech, t) ==
    IF ~t.has_embedding THEN [raised |-> "AttributeError", df |-> t]
    ELSE LET bad == {i \in 1..Len(t.embedding) : pooling_raises(tech, t.embedding[i]) # ""}
         IN  IF bad # {}
             THEN [raised |-> pooling_raises(tech, t.embedding[CHOOSE i \in bad : \A j \in bad : i <= j]),
                   df     |-> t]
             ELSE [raised |-> "",
                   df     |-> [t EXCEPT !.embedding =
                                 [i \in 1..Len(t.embedding) |->
                                     [nested |-> FALSE, v |-> pooling(tech, t.embedding[i].v)]]]]

TokenVectors1 == {<<N(-1)>>, <<N(4)>>}

TokenVectors2 == {<<N(1), N(5)>>, <<N(3), N(2)>>}

SentencesOver(tokens) == UNION {[1..k -> tokens] : k \in 1..MaxTokens}

EmbeddingsOver(tokens) == UNION {[1..k -> SentencesOver(tokens)] : k \in 1..MaxSentences}

Embeddings == EmbeddingsOver(TokenVectors1) \cup EmbeddingsOver(TokenVectors2)

\* [[[1,5],[3,2]]] and [[[3,2]],[[1,5],[1,5]]]
FewEmbeddings ==
    { << <<(<<N(1), N(5)>>), (<<N(3), N(2)>>)>> >>,
      << <<(<<N(3), N(2)>>)>>, <<(<<N(1), N(5)>>), (<<N(1), N(5)>>)>> >> }

EmbeddingTable(vectors) ==
    [name          |-> [i \in 1..Len(vectors) |-> <<96 + i>>],
     type          |-> [i \in 1..Len(vectors) |-> "class"],
     has_embedding |-> TRUE,
     embedding     |-> [i \in 1..Len(vectors) |-> [nested |-> TRUE, v |-> vectors[i]]]]

PoolTables ==
    {EmbeddingTable(<<e>>) : e \in Embeddings}
    \cup {EmbeddingTable(vs) : vs \in SeqsUpTo(FewEmbeddings, MaxRows)}

PoolingTechniques == SupportedTechniques \cup {"median", "sum"}

InitPool ==
    /\ technique \in PoolingTechniques
    /\ df \in PoolTables
    /\ pc = "table"
    /\ calls = <<>>
    /\ json = <<>> /\ listdir = <<>> /\ returned = <<>>
    /\ embedding = <<>> /\ embedding_dir = <<>>

\* DataLoader.apply_pooling(technique, df); calls keeps the table as it was.
ApplyPooling ==
    /\ pc = "table"
    /\ LET r == apply_pooling(technique, df)
       IN  /\ df' = r.df
           /\ pc' = IF r.raised = "" THEN "pooled" ELSE "raised"
           /\ calls' = <<[op |-> "apply_pooling", raised |-> r.raised, table |-> df]>>
    /\ UNCHANGED <<json, listdir, returned, embedding, embedding_dir, technique>>

NextPool == ApplyPooling

SpecPool == InitPool /\ [][NextPool]_vars

\* C4: for every table, also one without records, and every technique other
\* than 'max', 'min' and 'average', apply_pooling fails with the
\* unsupported-technique error and leaves every embedding as it was.
C4_UnsupportedFails ==
    (pc \in {"pooled", "raised"} /\ technique \notin SupportedTechniques) =>
        /\ pc = "raised"
        /\ calls[1].raised = "ValueError"
        /\ df.embedding = calls[1].table.embedding

RECURSIVE SumF(_, _)
SumF(f, n) == IF n = 0 THEN 0 ELSE f[n] + SumF(f, n - 1)

RECURSIVE ProdF(_, _)
ProdF(f, n) == IF n = 0 THEN 1 ELSE f[n] * ProdF(f, n - 1)

IsMaxOf(x, S) == x \in S /\ \A y \in S : FracLeq(y, x)

IsMinOf(x, S) == x \in S /\ \A y \in S : FracLeq(x, y)

\* The values of dimension d over the tokens of sentence s.
TokenValues(vec, s, d) == {vec[s][t][d] : t \in 1..Len(vec[s])}

AllValues(vec, d) == UNION {TokenValues(vec, s, d) : s \in 1..Len(vec)}

\* r is the mean of the sentences' means of dimension d: with P the product of
\* the sentences' token counts, r * Len(vec) * P = sum over s of (P / T_s) * sum_s.
IsMeanOfMeans(r, vec, d) ==
    LET S      == Len(vec)
        T      == [s \in 1..S |-> Len(vec[s])]
        P      == ProdF(T, S)
        sum(s) == SumF([t \in 1..T[s] |-> vec[s][t][d][1]], T[s])
        total  == SumF([s \in 1..S |-> (P \div T[s]) * sum(s)], S)
    IN  /\ r[2] > 0
        /\ GCD(Abs(r[1]), r[2]) = 1
        /\ r[1] * S * P = r[2] * total

IsReduction(tech, r, vec, d) ==
    CASE tech = "max" ->
            IsMaxOf(r, {m \in AllValues(vec, d) :
                            \E s \in 1..Len(vec) : IsMaxOf(m, TokenValues(vec, s, d))})
      [] tech = "min" ->
            IsMinOf(r, {m \in AllValues(vec, d) :
                            \E s \in 1..Len(vec) : IsMinOf(m, TokenValues(vec, s, d))})
      [] tech = "average" -> IsMeanOfMeans(r, vec, d)

\* C5: for max, min and average, apply_pooling replaces the embedding of every
\* record (a non-empty list of non-empty sentences of D-dimensional token
\* vectors) by a vector r of length D, r[d] being the reduction of dimension d
\* over the sentence's tokens when there is one sentence, and the same
\* reduction of the sentences' reductions when there are several.
C5_PoolingReduces ==
    (pc \in {"pooled", "raised"} /\ technique \in SupportedTechniques) =>
        /\ pc = "pooled"
        /\ Len(df.embedding) = Len(calls[1].table.embedding)
        /\ df.name = calls[1].table.name /\ df.type = calls[1].table.type
        /\ \A i \in 1..Len(df.embedding) :
               LET vec == calls[1].table.embedding[i].v
                   r   == df.embedding[i].v
               IN  /\ ~df.embedding[i].nested
                   /\ Len(r) = Len(vec[1][1])
                   /\ \A d \in 1..Len(r) : IsReduction(technique, r[d], vec, d)

\* max on [[[1,5],[3,2]]] gives [3,5]
C5_Witness ==
    /\ pc = "pooled"
    /\ technique = "max"
    /\ Len(df.embedding) = 1
    /\ calls[1].table.embedding[1].v = << <<(<<N(1), N(5)>>), (<<N(3), N(2)>>)>> >>
    /\ df.embedding[1].v = <<N(3), N(5)>>

(***************************************************************************)
(* Encoder and cache                                                       *)
(***************************************************************************)

\* 'bert-base-uncased'
BertName == <<"b","e","r","t","-","b","a","s","e","-","u","n","c","a","s","e","d">>

\* 'EleutherAI/gpt-neo-1.3B'
GptNeoName ==
    <<"E","l","e","u","t","h","e","r","A","I","/","g","p","t","-","n","e","o","-","1",".","3","B">>

\* 'fasttext'
FastTextDir == <<"f","a","s","t","t","e","x","t">>

Accessors == {"get_bert", "get_gptneo", "get_fasttext"}

\* DataLoader.set_embeddings: the encoder behind each accessor (three of the
\* nine; the other Flair accessors differ from get_bert by the name alone and
\* get_word2vec from get_fasttext by the directory alone).
set_embeddings ==
    [a \in Accessors |->
        CASE a = "get_bert"     -> [class |-> "FlairEncoder", embedding |-> BertName]
          [] a = "get_gptneo"   -> [class |-> "FlairEncoder", embedding |-> GptNeoName]
          [] a = "get_fasttext" -> [class |-> "FastTextEncoder", embedding |-> <<>>]]

\* get_embedding_dir of the encoder's class: FastTextEncoder overrides it.
encoder_dir(enc) ==
    IF enc.class = "FastTextEncoder" THEN FastTextDir ELSE get_embedding_dir(enc.embedding)

\* get_embedder: a pretrained model looked up by name (Flair), or a model
\* trained on the names of the table (FastText).
get_embedder(enc, t) ==
    IF enc.class = "FastTextEncoder"
    THEN [kind |-> "fasttext", model |-> <<>>, vocab |-> Range(t.name)]
    ELSE [kind |-> "flair", model |-> enc.embedding, vocab |-> {}]

\* create_embedding: one list of token vectors per sentence.  The library's
\* model is opaque: a name is one sentence of one token, and the token's vector
\* is a fixed function of the embedder and of the text.
create_embedding(statement, embedder) ==
    LET model_id == IF embedder.kind = "fasttext"
                    THEN Cardinality(embedder.vocab) ELSE Len(embedder.model)
    IN  << <<(<<N(model_id), N(Len(statement))>>)>> >>

cache_never_hit(key, data_dir) == FALSE

\* embedding_dir in os.listdir(data_dir)
cache_hit(key, data_dir) == key \in DOMAIN data_dir

EmbeddedColumn(t, embedder) ==
    [i \in 1..Len(t.name) |-> [nested |-> TRUE, v |-> create_embedding(t.name[i], embedder)]]

\* A map that writes each record's embedding as soon as it is computed.
map_embeddings_inplace(t, embedder, fail) ==
    IF fail \in 1..Len(t.name)
    THEN [raised |-> "Error", create_calls |-> fail,
          df |-> [t EXCEPT !.has_embedding = TRUE,
                           !.embedding = [i \in 1..Len(t.name) |->
                               IF i < fail THEN EmbeddedColumn(t, embedder)[i]
                               ELSE [nested |-> FALSE, v |-> <<>>]]]]
    ELSE [raised |-> "", create_calls |-> Len(t.name),
          df |-> [t EXCEPT !.has_embedding = TRUE, !.embedding = EmbeddedColumn(t, embedder)]]

\* df['embedding'] = df['name'].progress_map(create_embedding): the column is
\* assigned once every record has been embedded; create_embedding raising on
\* record `fail` (0: on none) ends the map before the assignment.
map_embeddings(t, embedder, fail) ==
    IF fail \in 1..Len(t.name)
    THEN [raised |-> "Error", create_calls |-> fail, df |-> t]
    ELSE [raised |-> "", create_calls |-> Len(t.name),
          df |-> [t EXCEPT !.has_embedding = TRUE, !.embedding = EmbeddedColumn(t, embedder)]]

to_pickle(data_dir, key, t) ==
    IF key \in DOMAIN data_dir
    THEN [data_dir EXCEPT ![key] = t]
    ELSE data_dir @@ (key :> t)

persist_never(save, data_dir, key, t) == data_dir

persist_always(save, data_dir, key, t) == to_pickle(data_dir, key, t)

\* if save: os.mkdir(data_dir/embedding_dir) when it is absent; df.to_pickle(.../data.pkl)
persist(save, data_dir, key, t) ==
    IF save THEN to_pickle(data_dir, key, t) ELSE data_dir

\* get_embedded_dataset.encode_datasets.  result is the table returned, alias
\* says whether it is the caller's table itself (a miss) or a new one (a hit).
encode_datasets(key, data_dir, t, enc, save, fail) ==
    IF cache_hit(key, data_dir)
    THEN [outcome |-> "hit", raised |-> "", df |-> t, data_dir |-> data_dir,
          built |-> FALSE, create_calls |-> 0,
          result |-> data_dir[key], alias |-> FALSE]
    ELSE LET m == map_embeddings(t, get_embedder(enc, t), fail)
         IN  IF m.raised # ""
             THEN [outcome |-> "miss", raised |-> m.raised, df |-> m.df,
                   data_dir |-> data_dir, built |-> TRUE, create_calls |-> m.create_calls,
                   result |-> NoTable, alias |-> FALSE]
             ELSE IF Len(m.df.name) = 0
             THEN \* print(df.iloc[0]) on a table without records
                  [outcome |-> "miss", raised |-> "IndexError", df |-> m.df,
                   data_dir |-> data_dir, built |-> TRUE, create_calls |-> m.create_calls,
                   result |-> NoTable, alias |-> FALSE]
             ELSE [outcome |-> "miss", raised |-> "", df |-> m.df,
                   data_dir |-> persist(save, data_dir, key, m.df),
                   built |-> TRUE, create_calls |-> m.create_calls,
                   result |-> m.df, alias |-> TRUE]

\* "Car", "Bike", "speed", "Auto", "Bus"
Car == <<67, 97, 114>>

Bike == <<66, 105, 107, 101>>

Speed == <<115, 112, 101, 101, 100>>

Auto == <<65, 117, 116, 111>>

Bus == <<66, 117, 115>>

\* The metadata files of the runs: the one of the specification's example with
\* a French document beside it, one with a single class, one without English.
Inputs ==
    { <<[lang |-> "__label__en", classes |-> <<Car, Car, Bike>>, attributes |-> <<Speed>>],
        [lang |-> "__label__fr", classes |-> <<Auto>>]>>,
      <<[lang |-> "__label__en", classes |-> <<Bus>>]>>,
      <<[lang |-> "__label__fr", classes |-> <<Auto>>, attributes |-> <<Speed>>]>> }

NoHandle == [kind |-> "none", table |-> NoTable, snapshot |-> NoTable]

\* The table an accessor returned, as it is now.
Content(a) == IF returned[a].kind = "self" THEN df ELSE returned[a].table

CallNumber == IF calls = <<>> THEN 0 ELSE Last(calls).n

Logged(c) == IF calls = <<>> THEN <<c>> ELSE <<Last(calls), c>>

MainPoolingTechniques == {"max", "median"}

Init ==
    /\ json \in Inputs
    /\ df = get_df_from_data(get_cleaned_data(json))
    /\ listdir = <<>>
    /\ returned = [a \in Accessors |-> NoHandle]
    /\ calls = <<>>
    /\ pc = "loaded"
    /\ embedding = <<>> /\ embedding_dir = <<>> /\ technique = ""

\* loader.get_bert(save), loader.get_gptneo(save), loader.get_fasttext(save):
\* GeneralEncoder.get_embedded_dataset on the loader's df and data_dir.  fail is
\* the record create_embedding raises on when it is reached (0: on none), and
\* the call's entry of calls keeps it as `failing` when the records are mapped.
GetEmbeddedDataset(a, save, fail) ==
    /\ pc = "loaded"
    /\ CallNumber < MaxCalls
    /\ LET enc == set_embeddings[a]
           key == encoder_dir(enc)
           r   == encode_datasets(key, listdir, df, enc, save, fail)
       IN  /\ df' = r.df
           /\ listdir' = r.data_dir
           /\ returned' =
                  IF r.raised # "" THEN returned
                  ELSE [returned EXCEPT ![a] =
                           [kind     |-> IF r.alias THEN "self" ELSE "loaded",
                            table    |-> IF r.alias THEN NoTable ELSE r.result,
                            snapshot |-> r.result]]
           /\ calls' = Logged([n |-> CallNumber + 1, op |-> "get", accessor |-> a,
                               save |-> save, technique |-> "", key |-> key,
                               outcome |-> r.outcome, raised |-> r.raised,
                               built |-> r.built, create_calls |-> r.create_calls,
                               failing |-> IF r.outcome = "miss" THEN fail ELSE 0])
    /\ UNCHANGED <<json, embedding, embedding_dir, technique, pc>>

\* DataLoader.apply_pooling(tech, table) on the table accessor a returned.
ApplyPoolingTo(a, tech) ==
    /\ pc = "loaded"
    /\ CallNumber < MaxCalls
    /\ returned[a].kind # "none"
    /\ LET r == apply_pooling(tech, Content(a))
       IN  /\ df' = IF returned[a].kind = "self" THEN r.df ELSE df
           /\ returned' =
                  [returned EXCEPT ![a] =
                      [kind     |-> returned[a].kind,
                       table    |-> IF returned[a].kind = "self" THEN NoTable ELSE r.df,
                       snapshot |-> r.df]]
           /\ calls' = Logged([n |-> CallNumber + 1, op |-> "apply_pooling", accessor |-> a,
                               save |-> FALSE, technique |-> tech, key |-> <<>>,
                               outcome |-> "", raised |-> r.raised,
                               built |-> FALSE, create_calls |-> 0, failing |-> 0])
    /\ UNCHANGED <<json, listdir, embedding, embedding_dir, technique, pc>>

\* A later run: DataLoader.__init__ on a metadata file, data_dir being kept
\* (Path(self.data_dir).mkdir(parents=True, exist_ok=True)).
Reload(j) ==
    /\ pc = "loaded"
    /\ CallNumber < MaxCalls
    /\ json' = j
    /\ df' = get_df_from_data(get_cleaned_data(j))
    /\ returned' = [a \in Accessors |-> NoHandle]
    /\ calls' = Logged([n |-> CallNumber + 1, op |-> "load", accessor |-> "",
                        save |-> FALSE, technique |-> "", key |-> <<>>,
                        outcome |-> "", raised |-> "",
                        built |-> FALSE, create_calls |-> 0, failing |-> 0])
    /\ UNCHANGED <<listdir, embedding, embedding_dir, technique, pc>>

Next ==
    \/ \E a \in Accessors, save \in BOOLEAN, fail \in 0..Len(df.name) :
           GetEmbeddedDataset(a, save, fail)
    \/ \E a \in Accessors, tech \in MainPoolingTechniques : ApplyPoolingTo(a, tech)
    \/ \E j \in Inputs : Reload(j)

Spec == Init /\ [][Next]_vars

\* The step is a get_embedded_dataset call; NewCall is what it did.
NewCall == Last(calls')

GetStep == calls' # calls /\ NewCall.op = "get"

BothGets ==
    /\ Len(calls) = 2
    /\ calls[1].op = "get" /\ calls[2].op = "get"
    /\ calls[1].accessor = calls[2].accessor

\* C2 (as stated): of two consecutive get_embedded_dataset calls with the same
\* table and technique, the second builds no backend and embeds no record,
\* whatever the save flag of either call.
C2_SecondCallComputesNothing ==
    BothGets => ~calls[2].built /\ calls[2].create_calls = 0

\* C2 (amended): of two consecutive get_embedded_dataset calls with the same
\* table and technique, the second builds no backend and embeds no record when
\* the first found the artifact or returned from a miss with save true.
C2_SecondCallAfterPersist ==
    (BothGets /\ (calls[1].outcome = "hit" \/ (calls[1].raised = "" /\ calls[1].save))) =>
        /\ calls[2].outcome = "hit"
        /\ ~calls[2].built
        /\ calls[2].create_calls = 0

C2_Witness ==
    /\ BothGets
    /\ calls[1].outcome = "miss" /\ calls[1].raised = "" /\ calls[1].save
    /\ calls[1].built /\ calls[1].create_calls = 3
    /\ ~calls[2].save /\ calls[2].outcome = "hit"

\* C3: an artifact under cache_root/key stays as it is through every step, and
\* a get_embedded_dataset call whose technique maps to a key that has an
\* artifact returns the stored table, whatever the caller's table and the save
\* flag are.
C3_ArtifactReturnedAndKept ==
    [][ /\ \A k \in DOMAIN listdir : k \in DOMAIN listdir' /\ listdir'[k] = listdir[k]
        /\ (GetStep /\ NewCall.key \in DOMAIN listdir) =>
               /\ NewCall.outcome = "hit" /\ NewCall.raised = ""
               /\ ~NewCall.built /\ NewCall.create_calls = 0
               /\ returned'[NewCall.accessor].kind = "loaded"
               /\ returned'[NewCall.accessor].table = listdir[NewCall.key]
               /\ df' = df
      ]_vars

\* A hit on an artifact written by an earlier run for another table.
C3_Witness ==
    /\ calls # <<>>
    /\ Last(calls).op = "get" /\ Last(calls).outcome = "hit" /\ Last(calls).save
    /\ Content(Last(calls).accessor) = listdir[Last(calls).key]
    /\ Content(Last(calls).accessor).name # df.name

\* C8: a get_embedded_dataset call that misses and returns leaves an artifact at
\* cache_root/key exactly when save is true: with save true the artifact holds
\* the augmented table, with save false cache_root is as it was, and no other
\* entry of cache_root is created or changed.
C8_PersistIffSave ==
    [][ (GetStep /\ NewCall.outcome = "miss" /\ NewCall.raised = "") =>
            /\ NewCall.key \notin DOMAIN listdir
            /\ (NewCall.key \in DOMAIN listdir') <=> NewCall.save
            /\ NewCall.save =>
                   /\ listdir'[NewCall.key] = df'
                   /\ df'.has_embedding
                   /\ df'.name = df.name /\ df'.type = df.type
            /\ ~NewCall.save => listdir' = listdir
            /\ DOMAIN listdir' \subseteq DOMAIN listdir \cup {NewCall.key}
            /\ \A k \in DOMAIN listdir : listdir'[k] = listdir[k]
      ]_vars

C8_Witness ==
    /\ Len(calls) = 2
    /\ calls[1].op = "get" /\ calls[1].outcome = "miss" /\ calls[1].raised = "" /\ calls[1].save
    /\ calls[2].op = "get" /\ calls[2].outcome = "miss" /\ calls[2].raised = "" /\ ~calls[2].save
    /\ DOMAIN listdir = {calls[1].key}
    /\ calls[2].key # calls[1].key

\* C9: when create_embedding raises on a record of a missing
\* get_embedded_dataset call, the call raises, the table is as it was (no
\* record has received an embedding from the call), cache_root is as it was
\* with nothing under cache_root/key, and the next call with the same
\* technique is a miss again.
C9_FailedCallLeavesNothing ==
    [][ /\ (GetStep /\ NewCall.failing > 0) =>
               /\ NewCall.outcome = "miss"
               /\ NewCall.raised = "Error"
               /\ df' = df
               /\ listdir' = listdir
               /\ NewCall.key \notin DOMAIN listdir'
               /\ returned' = returned
        /\ (/\ calls # <<>>
            /\ Last(calls).op = "get" /\ Last(calls).raised = "Error"
            /\ GetStep /\ NewCall.accessor = Last(calls).accessor) =>
               NewCall.outcome = "miss"
      ]_vars

\* create_embedding raised on the second record, and the call was made again.
C9_Witness ==
    /\ BothGets
    /\ calls[1].failing = 2 /\ calls[1].raised = "Error" /\ calls[1].save
    /\ calls[2].outcome = "miss" /\ calls[2].raised = ""
    /\ calls[1].key \in DOMAIN listdir

\* C10: the table an accessor returned holds what it held when it was returned
\* (or what apply_pooling on that very table made of it), whatever accessors of
\* other techniques and apply_pooling on their tables have done since.
C10_ReturnedTablesIndependent ==
    \A a \in Accessors :
        returned[a].kind # "none" => Content(a) = returned[a].snapshot
====
